---- MODULE Spec2Model ----
(***************************************************************************)
(* plot_hr_fixed_width.py: the reader of a MESA history.data file, the two *)
(* chart functions and main().  Text is modelled character by character:  *)
(* a line is a string, str.strip/str.split/float/str.lower and the `in`   *)
(* substring test are operators that work on its characters.               *)
(***************************************************************************)
EXTENDS Integers, Sequences, FiniteSets, TLC

(***************************************************************************)
(* Bounds of the model.                                                    *)
(***************************************************************************)
\* the longest input file, in lines
MaxLines == 4

(***************************************************************************)
(* Characters and strings.                                                 *)
(***************************************************************************)
Ch(s, i) == SubSeq(s, i, i)

Range(f) == {f[i] : i \in DOMAIN f}

\* the characters str.strip() and str.split() treat as whitespace
IsSpace(c) == c \in {" ", "\t", "\n", "\r"}

IsDigit(c) == \E k \in 1..10 : Ch("0123456789", k) = c

DigitVal(c) == (CHOOSE k \in 1..10 : Ch("0123456789", k) = c) - 1

\* str.lower() on one character (ASCII letters)
LowerChar(c) ==
    IF \E k \in 1..26 : Ch("ABCDEFGHIJKLMNOPQRSTUVWXYZ", k) = c
    THEN Ch("abcdefghijklmnopqrstuvwxyz",
            CHOOSE k \in 1..26 : Ch("ABCDEFGHIJKLMNOPQRSTUVWXYZ", k) = c)
    ELSE c

RECURSIVE Lower(_)
\* str.lower()
Lower(s) == IF s = "" THEN "" ELSE LowerChar(Ch(s, 1)) \o Lower(SubSeq(s, 2, Len(s)))

\* `sub in s` on strings
Contains(s, sub) ==
    \E i \in 1..(Len(s) - Len(sub) + 1) : SubSeq(s, i, i + Len(sub) - 1) = sub

RECURSIVE SplitFrom(_, _, _, _)
SplitFrom(s, i, cur, acc) ==
    IF i > Len(s)
    THEN IF cur = "" THEN acc ELSE Append(acc, cur)
    ELSE IF IsSpace(Ch(s, i))
         THEN SplitFrom(s, i + 1, "", IF cur = "" THEN acc ELSE Append(acc, cur))
         ELSE SplitFrom(s, i + 1, cur \o Ch(s, i), acc)

\* str.split(): the maximal runs of non-whitespace characters, in order
Split(s) == SplitFrom(s, 1, "", <<>>)

RECURSIVE Strip(_)
\* str.strip()
Strip(s) ==
    IF s = "" THEN ""
    ELSE IF IsSpace(Ch(s, 1)) THEN Strip(SubSeq(s, 2, Len(s)))
    ELSE IF IsSpace(Ch(s, Len(s))) THEN Strip(SubSeq(s, 1, Len(s) - 1))
    ELSE s

(***************************************************************************)
(* float(x).  A finite value is the decimal m * 10^e with m not divisible  *)
(* by 10 (0 is m = 0, e = 0), so two values are equal iff the numbers are. *)
(***************************************************************************)
NotAFloat == [kind |-> "ValueError"]

RECURSIVE Normalize(_, _)
Normalize(m, e) ==
    IF m = 0 THEN [kind |-> "num", m |-> 0, e |-> 0]
    ELSE IF m % 10 = 0 THEN Normalize(m \div 10, e + 1)
    ELSE [kind |-> "num", m |-> m, e |-> e]

AllDigits(s) == \A i \in 1..Len(s) : IsDigit(Ch(s, i))

RECURSIVE DigitsToInt(_)
DigitsToInt(s) ==
    IF s = "" THEN 0
    ELSE 10 * DigitsToInt(SubSeq(s, 1, Len(s) - 1)) + DigitVal(Ch(s, Len(s)))

\* an underscore is allowed only between two digits
UnderscoresOk(s) ==
    \A i \in 1..Len(s) :
        Ch(s, i) = "_" =>
            /\ i > 1 /\ i < Len(s)
            /\ IsDigit(Ch(s, i - 1)) /\ IsDigit(Ch(s, i + 1))

RECURSIVE DropUnderscores(_)
DropUnderscores(s) ==
    IF s = "" THEN ""
    ELSE (IF Ch(s, 1) = "_" THEN "" ELSE Ch(s, 1)) \o DropUnderscores(SubSeq(s, 2, Len(s)))

HasSign(s) == s # "" /\ Ch(s, 1) \in {"+", "-"}

Unsigned(s) == IF HasSign(s) THEN SubSeq(s, 2, Len(s)) ELSE s

SignOf(s) == IF HasSign(s) /\ Ch(s, 1) = "-" THEN -1 ELSE 1

\* index of the first character of s that is in cs, or Len(s) + 1
FirstOf(s, cs) ==
    IF \E i \in 1..Len(s) : Ch(s, i) \in cs
    THEN CHOOSE i \in 1..Len(s) :
            /\ Ch(s, i) \in cs
            /\ \A j \in 1..(i - 1) : Ch(s, j) \notin cs
    ELSE Len(s) + 1

\* ParseDecimal with the digits after the point read as integer digits
ParseDecimalPointIgnored(sign, body) ==
    LET ePos   == FirstOf(body, {"e", "E"})
        mant   == SubSeq(body, 1, ePos - 1)
        hasExp == ePos <= Len(body)
        expStr == SubSeq(body, ePos + 1, Len(body))
        dot    == FirstOf(mant, {"."})
        intp   == SubSeq(mant, 1, dot - 1)
        frac   == SubSeq(mant, dot + 1, Len(mant))
        expOk  == ~hasExp \/ (Unsigned(expStr) # "" /\ AllDigits(Unsigned(expStr)))
        expVal == IF hasExp THEN SignOf(expStr) * DigitsToInt(Unsigned(expStr)) ELSE 0
    IN  IF /\ AllDigits(intp) /\ AllDigits(frac)
           /\ Len(intp) + Len(frac) > 0
           /\ expOk
        THEN Normalize(sign * DigitsToInt(intp \o frac), expVal)
        ELSE NotAFloat

\* the decimal literal: digits [. digits] [(e|E) [sign] digits], at least
\* one digit in the mantissa
ParseDecimal(sign, body) ==
    LET ePos   == FirstOf(body, {"e", "E"})
        mant   == SubSeq(body, 1, ePos - 1)
        hasExp == ePos <= Len(body)
        expStr == SubSeq(body, ePos + 1, Len(body))
        dot    == FirstOf(mant, {"."})
        intp   == SubSeq(mant, 1, dot - 1)
        frac   == SubSeq(mant, dot + 1, Len(mant))
        expOk  == ~hasExp \/ (Unsigned(expStr) # "" /\ AllDigits(Unsigned(expStr)))
        expVal == IF hasExp THEN SignOf(expStr) * DigitsToInt(Unsigned(expStr)) ELSE 0
    IN  IF /\ AllDigits(intp) /\ AllDigits(frac)
           /\ Len(intp) + Len(frac) > 0
           /\ expOk
        THEN Normalize(sign * DigitsToInt(intp \o frac), expVal - Len(frac))
        ELSE NotAFloat

\* float(tok) for a token without surrounding whitespace
ParseFloat(tok) ==
    IF ~UnderscoresOk(tok) THEN NotAFloat
    ELSE LET s    == DropUnderscores(tok)
             body == Unsigned(s)
         IN  IF Lower(body) \in {"inf", "infinity"}
             THEN [kind |-> "inf", sign |-> SignOf(s)]
             ELSE IF Lower(body) = "nan"
             THEN [kind |-> "nan"]
             ELSE ParseDecimal(SignOf(s), body)

IsFloat(tok) == ParseFloat(tok) # NotAFloat

(***************************************************************************)
(* The inputs: the content of LOGS/history.data and the answer typed.      *)
(***************************************************************************)
\* the lines a file is made of (without the line terminator, which
\* str.strip() removes)
LineSet ==
    { "model_number star_age log_Teff log_L",
      "1 0.0 3.8 0.5",
      "2 1.0e3 3.79 0.51",
      "3 bad 3.7",
      "",
      "history of model_numbers",
      "model_number log_L log_Teff log_L" }

\* the lines of the files that may carry a radius column
RadiusLineSet ==
    { "model_number star_age log_Teff log_L",
      "1 0.0 3.8 0.5",
      " model_number star_age  log_Teff\tlog_L log_R ",
      "2 1.0e3 3.79 0.51 -0.1",
      "  " }

\* the files of at most MaxLines lines, each line from ls
Files(ls) == UNION {[1..n -> ls] : n \in 0..MaxLines}

\* what the user may type at the prompt
Responses == {"y", "Y", "n", "", "yes", "y "}

OutputFiles == {"hr_diagram_1Msun.png", "stellar_evolution_summary.png"}

\* an output file as it was before the run (absent, or an earlier image)
Prior == [state |-> "prior", panels |-> {}]

Image(panels) == [state |-> "written", panels |-> panels]

None == [kind |-> "None"]

Pending == [kind |-> "pending"]

VARIABLES
    fileExists,      \* os.path.exists(file_path)
    lines,           \* the lines of the file
    pc,              \* the position of main()
    title_line_num,  \* 0-based index of the header line, -1 while not found
    column_names,    \* header_line.split()
    i,               \* 0-based index of the next line of data_lines
    data,            \* the accepted rows
    ret,             \* what read_mesa_fixed_width returned
    data_dict,       \* main's data_dict
    columns,         \* main's columns
    hr_result,       \* what plot_simple_hr_diagram returned
    multi_result,    \* what plot_multiple_plots returned
    response,        \* the answer read by input()
    console,         \* the messages printed, in order
    calls,           \* the functions and the prompt main() reached, in order
    fs,              \* the output files
    error            \* the uncaught exception, if any

vars == <<fileExists, lines, pc, title_line_num, column_names, i, data, ret,
          data_dict, columns, hr_result, multi_result, response, console,
          calls, fs, error>>

readerVars == <<title_line_num, column_names, i, data, ret>>

mainVars == <<data_dict, columns, hr_result, multi_result, response, fs, error>>

InitOver(ls) ==
    /\ fileExists \in BOOLEAN
    /\ lines \in (IF fileExists THEN Files(ls) ELSE {<<>>})
    /\ pc = "open"
    /\ title_line_num = -1
    /\ column_names = <<>>
    /\ i = 0
    /\ data = <<>>
    /\ ret = Pending
    /\ data_dict = <<>>
    /\ columns = <<>>
    /\ hr_result = Pending
    /\ multi_result = Pending
    /\ response = ""
    /\ console = <<>>
    /\ calls = <<>>
    /\ fs = [f \in OutputFiles |-> Prior]
    /\ error = "none"

Init == InitOver(LineSet)

InitRadius == InitOver(RadiusLineSet)

(***************************************************************************)
(* read_mesa_fixed_width                                                   *)
(***************************************************************************)
\* FindTitleLine without the break: the last line with the sentinel wins
FindLastTitleLine(ls) ==
    IF \E k \in 1..Len(ls) : Contains(ls[k], "model_number")
    THEN (CHOOSE k \in 1..Len(ls) :
            /\ Contains(ls[k], "model_number")
            /\ \A j \in (k + 1)..Len(ls) : ~Contains(ls[j], "model_number")) - 1
    ELSE -1

\* the loop of lines 28-32: the first index whose line contains the
\* sentinel, or -1
FindTitleLine(ls) ==
    IF \E k \in 1..Len(ls) : Contains(ls[k], "model_number")
    THEN (CHOOSE k \in 1..Len(ls) :
            /\ Contains(ls[k], "model_number")
            /\ \A j \in 1..(k - 1) : ~Contains(ls[j], "model_number")) - 1
    ELSE -1

\* lines[title_line_num + 1:]
DataLines(ls, t) == SubSeq(ls, t + 2, Len(ls))

\* [float(x) for x in parts]: the values, or the ValueError of the first
\* token that is not a float
FloatList(parts) ==
    IF \A k \in 1..Len(parts) : IsFloat(parts[k])
    THEN [k \in 1..Len(parts) |-> ParseFloat(parts[k])]
    ELSE NotAFloat

\* RowFits with >= for ==
RowFitsAtLeast(values, names) == Len(values) >= Len(names)

\* len(values) == len(column_names)
RowFits(values, names) == Len(values) = Len(names)

\* AddRow with data.insert(0, values)
AddRowInFront(rows, values) == <<values>> \o rows

\* data.append(values)
AddRow(rows, values) == Append(rows, values)

\* Column with data_array[1:, k]
ColumnWithoutFirstRow(rows, k) == [r \in 1..(Len(rows) - 1) |-> rows[r + 1][k]]

\* data_array[:, k] for the 1-based column k
Column(rows, k) == [r \in 1..Len(rows) |-> rows[r][k]]

\* data_dict[key] = value
Put(d, key, value) ==
    [n \in (DOMAIN d) \cup {key} |-> IF n = key THEN value ELSE d[n]]

RECURSIVE BuildDict(_, _, _, _)
\* the loop of lines 74-76, from the 1-based column k on
BuildDict(d, names, rows, k) ==
    IF k > Len(names) THEN d
    ELSE BuildDict(Put(d, names[k], Column(rows, k)), names, rows, k + 1)

\* lines 15-25
ReadOpen ==
    /\ pc = "open"
    /\ calls' = Append(calls, "read")
    /\ IF ~fileExists
       THEN /\ console' = console \o <<"banner", "reading", "error: file does not exist">>
            /\ ret' = None
            /\ pc' = "unpack"
       ELSE /\ console' = console \o <<"banner", "reading", "line count">>
            /\ ret' = ret
            /\ pc' = "find_title"
    /\ UNCHANGED <<fileExists, lines, title_line_num, column_names, i, data>>
    /\ UNCHANGED mainVars

\* lines 27-47
FindTitle ==
    /\ pc = "find_title"
    /\ title_line_num' = FindTitleLine(lines)
    /\ IF title_line_num' = -1
       THEN /\ console' = Append(console, "error: no title line")
            /\ ret' = None
            /\ column_names' = column_names
            /\ pc' = "unpack"
       ELSE /\ console' = console \o <<"title line", "column count", "data line count">>
            /\ ret' = ret
            /\ column_names' = Split(Strip(lines[title_line_num' + 1]))
            /\ pc' = "parse"
    /\ UNCHANGED <<fileExists, lines, i, data, calls>>
    /\ UNCHANGED mainVars

\* one iteration of the loop of lines 51-63
ParseLine ==
    /\ pc = "parse"
    /\ i < Len(DataLines(lines, title_line_num))
    /\ LET line   == Strip(DataLines(lines, title_line_num)[i + 1])
           parts  == Split(line)
           values == FloatList(parts)
       IN  IF line = ""
           THEN UNCHANGED <<data, console>>
           ELSE IF values = NotAFloat
           THEN /\ console' = Append(console, "warning: line not parsed")
                /\ data' = data
           ELSE /\ data' = IF RowFits(values, column_names)
                           THEN AddRow(data, values) ELSE data
                /\ console' = console
    /\ i' = i + 1
    /\ UNCHANGED <<fileExists, lines, pc, title_line_num, column_names, ret, calls>>
    /\ UNCHANGED mainVars

\* lines 65-86
Assemble ==
    /\ pc = "parse"
    /\ i = Len(DataLines(lines, title_line_num))
    /\ IF data = <<>>
       THEN /\ console' = Append(console, "error: no valid data")
            /\ ret' = None
       ELSE /\ console' = console \o <<"row count", "shape", "key columns">>
            /\ ret' = [kind |-> "tuple",
                       data_dict |-> BuildDict(<<>>, column_names, data, 1),
                       column_names |-> column_names]
    /\ pc' = "unpack"
    /\ UNCHANGED <<fileExists, lines, title_line_num, column_names, i, data, calls>>
    /\ UNCHANGED mainVars

(***************************************************************************)
(* The chart functions                                                     *)
(***************************************************************************)
RequiredCols == <<"log_Teff", "log_L", "star_age">>

\* `col in data_dict` for every required column
HasRequired(d) == \A k \in 1..Len(RequiredCols) : RequiredCols[k] \in DOMAIN d

\* plot_simple_hr_diagram(data_dict): the result, the messages and the file
\* system afterwards
PlotSimpleHR(d, files) ==
    IF ~HasRequired(d)
    THEN [result |-> None,
          printed |-> <<"error: missing required column", "available columns">>,
          fs |-> files]
    ELSE [result |-> [kind |-> "True"],
          printed |-> <<"data range", "saved hr_diagram_1Msun.png">>,
          fs |-> [files EXCEPT !["hr_diagram_1Msun.png"] = Image({"hr"})]]

\* the panels plot_multiple_plots draws into
SummaryPanels(d) == {"a", "b", "c"} \cup (IF "log_R" \in DOMAIN d THEN {"d"} ELSE {})

\* plot_multiple_plots(data_dict)
PlotMultiple(d, files) ==
    IF ~HasRequired(d)
    THEN [result |-> None, printed |-> <<>>, fs |-> files]
    ELSE [result |-> None,
          printed |-> <<"saved stellar_evolution_summary.png">>,
          fs |-> [files EXCEPT !["stellar_evolution_summary.png"] =
                                    Image(SummaryPanels(d))]]

(***************************************************************************)
(* main                                                                    *)
(***************************************************************************)
\* IsYes without the lower()
IsYesExact(r) == r = "y"

\* response.lower() == 'y'
IsYes(r) == Lower(r) = "y"

\* lines 216-232: the tuple assignment, the None test, the preview
Unpack ==
    /\ pc = "unpack"
    /\ IF ret.kind = "tuple"
       THEN /\ data_dict' = ret.data_dict
            /\ columns' = ret.column_names
            /\ console' = console \o <<"first rows", "banner: HR diagram">>
            /\ error' = error
            /\ pc' = "hr"
       ELSE \* `data_dict, columns = None`
            /\ error' = "TypeError"
            /\ pc' = "crashed"
            /\ UNCHANGED <<data_dict, columns, console>>
    /\ UNCHANGED <<fileExists, lines, calls, hr_result, multi_result, response, fs>>
    /\ UNCHANGED readerVars

\* lines 234-235
CallHR ==
    /\ pc = "hr"
    /\ LET r == PlotSimpleHR(data_dict, fs)
       IN  /\ hr_result' = r.result
           /\ fs' = r.fs
           /\ console' = console \o r.printed \o
                         (IF r.result.kind = "True" THEN <<"HR diagram done">> ELSE <<>>)
    /\ calls' = Append(calls, "hr")
    /\ pc' = "prompt"
    /\ UNCHANGED <<fileExists, lines, data_dict, columns, multi_result, response, error>>
    /\ UNCHANGED readerVars

\* lines 238-240
Prompt ==
    /\ pc = "prompt"
    /\ \E r \in Responses :
        /\ response' = r
        /\ IF IsYes(r)
           THEN /\ console' = console \o <<"prompt", "drawing more">>
                /\ pc' = "multi"
           ELSE /\ console' = Append(console, "prompt")
                /\ pc' = "finish"
    /\ calls' = Append(calls, "input")
    /\ UNCHANGED <<fileExists, lines, data_dict, columns, hr_result, multi_result, fs, error>>
    /\ UNCHANGED readerVars

\* line 241
CallMultiple ==
    /\ pc = "multi"
    /\ LET r == PlotMultiple(data_dict, fs)
       IN  /\ multi_result' = r.result
           /\ fs' = r.fs
           /\ console' = console \o r.printed
    /\ calls' = Append(calls, "multi")
    /\ pc' = "finish"
    /\ UNCHANGED <<fileExists, lines, data_dict, columns, hr_result, response, error>>
    /\ UNCHANGED readerVars

\* lines 243-245
Finish ==
    /\ pc = "finish"
    /\ console' = Append(console, "analysis done")
    /\ pc' = "done"
    /\ UNCHANGED <<fileExists, lines, calls, data_dict, columns, hr_result,
                   multi_result, response, fs, error>>
    /\ UNCHANGED readerVars

Next ==
    \/ ReadOpen
    \/ FindTitle
    \/ ParseLine
    \/ Assemble
    \/ Unpack
    \/ CallHR
    \/ Prompt
    \/ CallMultiple
    \/ Finish

Spec == Init /\ [][Next]_vars

\* the same program on the files that may carry a radius column
SpecRadius == InitRadius /\ [][Next]_vars

(***************************************************************************)
(* What the claims speak of, stated on the file itself.                    *)
(***************************************************************************)
ReaderFailed == ret.kind = "None"

\* read_mesa_fixed_width has just returned to main()
ReaderReturned == pc = "unpack"

\* ... with a table
TableReturned == pc = "unpack" /\ ret.kind = "tuple"

\* line h (1-based) is the first line that contains the sentinel
HeaderAt(ls, h) ==
    /\ h \in 1..Len(ls)
    /\ Contains(ls[h], "model_number")
    /\ \A j \in 1..(h - 1) : ~Contains(ls[j], "model_number")

HasSentinel(ls) == \E h \in 1..Len(ls) : HeaderAt(ls, h)

TheHeader(ls) == CHOOSE h \in 1..Len(ls) : HeaderAt(ls, h)

NonEmptyLine(l) == \E c \in 1..Len(l) : ~IsSpace(Ch(l, c))

\* a line whose tokens are all floats and as many as the n columns
Accepts(l, n) ==
    LET toks == Split(l)
    IN  /\ NonEmptyLine(l)
        /\ Len(toks) = n
        /\ \A t \in 1..n : IsFloat(toks[t])

\* the lines after the header h that are accepted, up to line `last`
AcceptedUpTo(ls, h, last) ==
    LET n == Len(Split(ls[h]))
    IN  {k \in (h + 1)..last : Accepts(ls[k], n)}

AcceptedLines(ls, h) == AcceptedUpTo(ls, h, Len(ls))

NonEmptyAfter(ls, h) == {k \in (h + 1)..Len(ls) : NonEmptyLine(ls[k])}

RECURSIVE RowsFrom(_, _, _)
\* the values of the accepted lines from line k on, in file order
RowsFrom(ls, k, n) ==
    IF k > Len(ls) THEN <<>>
    ELSE LET toks == Split(ls[k])
         IN  (IF Accepts(ls[k], n)
              THEN << [t \in 1..n |-> ParseFloat(toks[t])] >>
              ELSE <<>>) \o RowsFrom(ls, k + 1, n)

Count(seq, x) == Cardinality({k \in 1..Len(seq) : seq[k] = x})

ErrorMessages ==
    {"error: file does not exist", "error: no title line", "error: no valid data"}

Warnings == Count(console, "warning: line not parsed")

Untouched == \A f \in OutputFiles : fs[f] = Prior

(***************************************************************************)
(* C1: whenever the reader fails (file missing, no header line, no valid   *)
(* row) the failure is reported, no chart function is invoked, no prompt   *)
(* is issued, no image is written and main() returns without an uncaught   *)
(* error.                                                                  *)
(***************************************************************************)
C1_FailedReadEndsNormally ==
    ReaderFailed =>
        /\ \E k \in 1..Len(console) : console[k] \in ErrorMessages
        /\ calls = <<"read">>
        /\ Untouched
        /\ error = "none"
        /\ pc # "crashed"

(***************************************************************************)
(* C2: the reader returns None, with the error printed and nothing thrown, *)
(* exactly when the file does not exist, or no line contains the substring *)
(* model_number, or no line after the header is accepted as a data row; in *)
(* every other case it returns the table with the ordered column names.    *)
(***************************************************************************)
C2_FailsExactlyWhen ==
    ReaderReturned =>
        /\ error = "none"
        /\ ReaderFailed <=>
              \/ ~fileExists
              \/ ~HasSentinel(lines)
              \/ AcceptedLines(lines, TheHeader(lines)) = {}
        /\ ReaderFailed => console[Len(console)] \in ErrorMessages
        /\ ~ReaderFailed =>
              /\ TableReturned
              /\ ret.column_names = Split(lines[TheHeader(lines)])
              /\ DOMAIN ret.data_dict = Range(ret.column_names)

\* a table returned from a file with preamble, a dropped line and a row
C2_Witness ==
    /\ TableReturned
    /\ TheHeader(lines) > 1
    /\ Warnings > 0

(***************************************************************************)
(* C3 as stated: a returned table has as many columns as the header line   *)
(* has tokens, and every column is as long as the number of accepted rows. *)
(***************************************************************************)
C3_ColumnsEqualHeaderTokens ==
    TableReturned =>
        LET rows == Cardinality(AcceptedLines(lines, TheHeader(lines)))
        IN  /\ Cardinality(DOMAIN ret.data_dict) =
                  Len(Split(lines[TheHeader(lines)]))
            /\ \A n \in DOMAIN ret.data_dict : Len(ret.data_dict[n]) = rows

(***************************************************************************)
(* C3 amended: a returned table has as many columns as the header line has *)
(* distinct tokens (a repeated name is one column), and every column is as *)
(* long as the number of accepted rows.                                    *)
(***************************************************************************)
C3_ColumnsEqualDistinctHeaderTokens ==
    TableReturned =>
        LET rows == Cardinality(AcceptedLines(lines, TheHeader(lines)))
        IN  /\ Cardinality(DOMAIN ret.data_dict) =
                  Cardinality(Range(Split(lines[TheHeader(lines)])))
            /\ \A n \in DOMAIN ret.data_dict : Len(ret.data_dict[n]) = rows

\* a table with a repeated header name, two rows and a line dropped
C3_Witness ==
    /\ TableReturned
    /\ Cardinality(DOMAIN ret.data_dict) < Len(ret.column_names)
    /\ Cardinality(AcceptedLines(lines, TheHeader(lines))) = 2
    /\ Cardinality(NonEmptyAfter(lines, TheHeader(lines))) = 3

(***************************************************************************)
(* C4: a non-empty line after the header is accepted iff all its tokens    *)
(* are floats and as many as the header's; every other one is dropped with *)
(* one warning: accepted + dropped = the non-empty lines after the header, *)
(* and the warnings are as many as the dropped lines.                      *)
(***************************************************************************)
C4_OneWarningPerDroppedLine ==
    (ReaderReturned /\ title_line_num # -1) =>
        LET h        == TheHeader(lines)
            accepted == AcceptedLines(lines, h)
            dropped  == NonEmptyAfter(lines, h) \ accepted
        IN  /\ Len(data) = Cardinality(accepted)
            /\ Cardinality(accepted) + Cardinality(dropped) =
                  Cardinality(NonEmptyAfter(lines, h))
            /\ Warnings = Cardinality(dropped)

(***************************************************************************)
(* C5 as stated: in a returned table, for every header index i the column  *)
(* named columns[i] holds the i-th value of each accepted row, in file     *)
(* order, whatever blank and dropped lines lie between them.               *)
(***************************************************************************)
C5_ColumnHoldsItsIndex ==
    TableReturned =>
        LET names == ret.column_names
            rows  == RowsFrom(lines, TheHeader(lines) + 1, Len(names))
        IN  \A k \in 1..Len(names) :
                ret.data_dict[names[k]] = [r \in 1..Len(rows) |-> rows[r][k]]

(***************************************************************************)
(* C5 amended: the same for every header index i whose name does not occur *)
(* again later in the header (all of them when the names are distinct).    *)
(***************************************************************************)
C5_ColumnHoldsItsIndexUnlessRepeated ==
    TableReturned =>
        LET names == ret.column_names
            rows  == RowsFrom(lines, TheHeader(lines) + 1, Len(names))
        IN  \A k \in 1..Len(names) :
                (\A j \in (k + 1)..Len(names) : names[j] # names[k]) =>
                    ret.data_dict[names[k]] = [r \in 1..Len(rows) |-> rows[r][k]]

\* two different rows accepted around a line that is blank or dropped
C5_Witness ==
    /\ TableReturned
    /\ TheHeader(lines) = 1
    /\ AcceptedLines(lines, 1) = {2, 4}
    /\ lines[2] # lines[4]

\* "model_number" is one of the whitespace-separated fields of line h, and
\* of no line before it
FieldHeaderAt(ls, h) ==
    /\ h \in 1..Len(ls)
    /\ "model_number" \in Range(Split(ls[h]))
    /\ \A j \in 1..(h - 1) : "model_number" \notin Range(Split(ls[j]))

ScanDone == fileExists /\ pc \notin {"open", "find_title"}

(***************************************************************************)
(* C6 as stated: the header is the first line that has model_number as one *)
(* of its whitespace-separated fields; no line before it and no later line *)
(* is the header.                                                          *)
(***************************************************************************)
C6_HeaderIsFirstLineWithField ==
    ScanDone =>
        IF \E h \in 1..Len(lines) : FieldHeaderAt(lines, h)
        THEN FieldHeaderAt(lines, title_line_num + 1)
        ELSE title_line_num = -1

(***************************************************************************)
(* C6 amended: the header is the first line that contains model_number as  *)
(* a substring; from then on it stays the header, the column names are its *)
(* tokens, and the rows come from the lines after it only.                 *)
(***************************************************************************)
C6_HeaderIsFirstLineWithSubstring ==
    ScanDone =>
        IF HasSentinel(lines)
        THEN LET h == TheHeader(lines)
             IN  /\ title_line_num + 1 = h
                 /\ column_names = Split(lines[h])
                 /\ ReaderReturned => Len(data) = Cardinality(AcceptedLines(lines, h))
        ELSE /\ title_line_num = -1
             /\ column_names = <<>>
             /\ data = <<>>

\* a header with a row before it and another line with the sentinel after it
C6_Witness ==
    /\ ReaderReturned /\ fileExists /\ HasSentinel(lines)
    /\ TheHeader(lines) > 1
    /\ Accepts(lines[1], Len(column_names))
    /\ \E k \in (TheHeader(lines) + 1)..Len(lines) : Contains(lines[k], "model_number")
    /\ title_line_num + 1 = TheHeader(lines)

MissingColumnReports == Count(console, "error: missing required column")

(***************************************************************************)
(* C7: each chart function, called on a table that lacks log_Teff, log_L   *)
(* or star_age, raises nothing, reports the failure on the console,        *)
(* returns a failure result and writes no image file.                      *)
(***************************************************************************)
C7_MissingColumnReported ==
    /\ (hr_result # Pending /\ ~HasRequired(data_dict)) =>
          /\ hr_result = None
          /\ fs["hr_diagram_1Msun.png"] = Prior
          /\ error = "none"
          /\ MissingColumnReports >= 1
    /\ (multi_result # Pending /\ ~HasRequired(data_dict)) =>
          /\ multi_result = None
          /\ Untouched
          /\ error = "none"
          /\ MissingColumnReports = 2

\* the answers that equal "y" when compared without regard to case
YesAnswers == {"y", "Y"}

(***************************************************************************)
(* C8: when the reader returns a table, the prompt is issued exactly once, *)
(* after the HR-diagram function has returned (drawn or skipped), and the  *)
(* summary grid is invoked iff the answer equals "y" without regard to     *)
(* case; otherwise stellar_evolution_summary.png is never written.  The    *)
(* summary grid never comes before the HR diagram.                         *)
(***************************************************************************)
C8_PromptOnceThenSummaryIffYes ==
    ret.kind = "tuple" =>
        /\ \E n \in 0..4 : calls = SubSeq(<<"read", "hr", "input", "multi">>, 1, n)
        /\ pc \in {"multi", "finish", "done"} =>
              /\ Count(calls, "input") = 1
              /\ Count(console, "prompt") = 1
              /\ hr_result # Pending
        /\ pc \in {"finish", "done"} =>
              ("multi" \in Range(calls) <=> response \in YesAnswers)
        /\ pc = "multi" => response \in YesAnswers
        /\ response \notin YesAnswers => fs["stellar_evolution_summary.png"] = Prior

\* the HR diagram skipped for a missing column, "Y" typed, the grid invoked
C8_Witness ==
    /\ pc = "done"
    /\ hr_result = None
    /\ response = "Y"
    /\ calls = <<"read", "hr", "input", "multi">>

(***************************************************************************)
(* C9: on a table with log_Teff, log_L and star_age but without log_R,     *)
(* plot_multiple_plots writes stellar_evolution_summary.png with panels    *)
(* (a), (b), (c) drawn and (d) blank, and returns a success result that    *)
(* differs from the result it returns when a required column is missing.   *)
(***************************************************************************)
C9_SummaryWithoutRadiusSucceeds ==
    (multi_result # Pending /\ HasRequired(data_dict) /\ "log_R" \notin DOMAIN data_dict) =>
        /\ fs["stellar_evolution_summary.png"] = Image({"a", "b", "c"})
        /\ multi_result # None

ScenarioFile ==
    << "model_number star_age log_Teff log_L",
       "1 0.0 3.8 0.5",
       "2 1.0e3 3.79 0.51",
       "3 bad 3.7" >>

\* what the scenario says of the table, but for the number of columns
ScenarioTable ==
    /\ ret.kind = "tuple"
    /\ ret.column_names = <<"model_number", "star_age", "log_Teff", "log_L">>
    /\ DOMAIN ret.data_dict = {"model_number", "star_age", "log_Teff", "log_L"}
    /\ \A n \in DOMAIN ret.data_dict : Len(ret.data_dict[n]) = 2
    /\ Warnings = 1
    /\ ret.data_dict["log_Teff"] =
          << [kind |-> "num", m |-> 38, e |-> -1], [kind |-> "num", m |-> 379, e |-> -2] >>

(***************************************************************************)
(* C10 as stated: for the header `model_number star_age log_Teff log_L`    *)
(* and the rows `1 0.0 3.8 0.5`, `2 1.0e3 3.79 0.51`, `3 bad 3.7`, the     *)
(* table has 3 columns named as in the header, 2 rows, 1 warning, and      *)
(* log_Teff = [3.8, 3.79].                                                 *)
(***************************************************************************)
C10_ScenarioThreeColumns ==
    (ReaderReturned /\ fileExists /\ lines = ScenarioFile) =>
        /\ ScenarioTable
        /\ Cardinality(DOMAIN ret.data_dict) = 3

(***************************************************************************)
(* C10 amended: for that file the table has 4 columns named as in the      *)
(* header, 2 rows, 1 warning, and log_Teff = [3.8, 3.79].                  *)
(***************************************************************************)
C10_ScenarioFourColumns ==
    (ReaderReturned /\ fileExists /\ lines = ScenarioFile) =>
        /\ ScenarioTable
        /\ Cardinality(DOMAIN ret.data_dict) = 4

C10_Witness == TableReturned /\ lines = ScenarioFile /\ Len(data) = 2
====
